---- MODULE Spec2Model ----
(***************************************************************************)
(* Waitlist queue manager of the AISaaS backend.                           *)
(*                                                                         *)
(* The store is the Waitlist collection (backend/models/Waitlist.js); the  *)
(* operations are the route handlers of backend/routes/waitlist.js.  A     *)
(* handler is cut at its awaits: every await is one round trip to the      *)
(* store, and round trips of different requests interleave.                *)
(***************************************************************************)
EXTENDS Integers, Sequences, FiniteSets, TLC

\* ------------------------------------------------------------------ bounds
MaxIds == 2      \* documents ever created
MaxTime == 2     \* stamping writes (invite / markAsRegistered saves)
MaxReqs == 2     \* requests in flight at the same time
MaxViews == 2    \* detail views of a recipe
MaxRates == 3    \* rating submissions on a recipe
MaxFoods == 2    \* recipes in a sampled catalog
MaxWaiting == 250  \* waiting entries in a sampled waitlist
MaxListed == 25  \* entries in a waitlist that is listed
MaxCreated == 1  \* recipes created by requests
MaxDays == 3     \* calendar days the clock runs through
MaxCooks == 3    \* recipes a user marks as cooked
MaxFavorites == 3  \* length of a user's list of favorites

Reqs == 1..MaxReqs
Ids == 1..MaxIds

\* ------------------------------------------------------------ email strings
\* An email is a sequence of characters over the alphabet a, A, b, space.
RawEmails == { <<"a">>, <<"A">>, <<"b">>, <<" ", "a">> }

\* schema option lowercase: true (String.prototype.toLowerCase)
LowerChar(c) ==
  CASE c = "A" -> "a"
    [] c = "O" -> "o"
    [] c = "T" -> "t"
    [] OTHER -> c

Lowercase(s) == [i \in 1..Len(s) |-> LowerChar(s[i])]

RECURSIVE TrimLeft(_)
TrimLeft(s) == IF s # <<>> /\ Head(s) = " " THEN TrimLeft(Tail(s)) ELSE s

RECURSIVE TrimRight(_)
TrimRight(s) ==
  IF s # <<>> /\ s[Len(s)] = " " THEN TrimRight(SubSeq(s, 1, Len(s) - 1)) ELSE s

\* schema option trim: true (String.prototype.trim)
Trim(s) == TrimRight(TrimLeft(s))

\* The setters of waitlistSchema.email, applied when a document or an
\* update is cast: lowercase, then trim.
NormalizeEmail(s) == Trim(Lowercase(s))

\* body('email').isEmail(): no sanitizer is chained, so an address with
\* white space around it does not validate.
IsEmail(s) == s # <<>> /\ \A i \in 1..Len(s) : s[i] # " "

\* ------------------------------------------------------------------ schema
Statuses == {"waiting", "invited", "registered", "declined"}

NoVal == "absent"          \* a status field the request body does not carry
NoEmail == <<>>            \* no email field in the request body
NoPosition == -1           \* no position field in the request body
NoDate == 0                \* invitedAt / registeredAt not set

BodyPositions == {1}       \* values of a "position" field in a PUT body
BodyEmails == { <<" ", "A">>, <<"b">> }   \* values of an "email" field

\* ------------------------------------------------------------------- state
VARIABLES
  entries,    \* the collection: _id -> document
  nextId,     \* next _id to hand out (creation order)
  now,        \* clock read by new Date()
  req,        \* per request slot: the handler in flight and its locals
  serial,     \* TRUE: the server takes one request at a time
  foods,      \* the Food collection: _id -> recipe document
  freq,       \* per request slot: the food / recipe handler in flight
  served,     \* requests answered with success so far, per route
  out,        \* the payload of the last response of a read route
  users       \* the User collection: _id -> the stats of the document

\* the state of the recipe routes
kitchen == <<foods, freq, served, out, users>>

vars == <<entries, nextId, now, req, serial, kitchen>>

IdleReq ==
  [op |-> "none", pc |-> "idle", email |-> <<>>, id |-> 0,
   position |-> 0, res |-> "none", totalCount |-> 0, estimatedWaitTime |-> 0]

\* a food / recipe request slot with no request in it
IdleFreq ==
  [op |-> "none", pc |-> "idle", id |-> 0, val |-> 0, text |-> FALSE,
   pop |-> 0, avg |-> 0, cnt |-> 0, res |-> "none", caller |-> 0, body |-> <<>>,
   user |-> <<>>, userStats |-> <<>>, param |-> <<>>]

NoOut == [route |-> "none"]

\* no user document is read or written
NoUsers == <<>>

\* No recipe in the catalog, no recipe request in flight.
KitchenIdle ==
  /\ foods = <<>>
  /\ freq = [r \in Reqs |-> IdleFreq]
  /\ served = [view |-> 0, rate |-> 0, created |-> 0]
  /\ out = NoOut
  /\ users = NoUsers

Init ==
  /\ entries = <<>>
  /\ nextId = 1
  /\ now = 0
  /\ req = [r \in Reqs |-> IdleReq]
  /\ serial = FALSE
  /\ KitchenIdle

\* The same server taking one request at a time.
SeqInit ==
  /\ entries = <<>>
  /\ nextId = 1
  /\ now = 0
  /\ req = [r \in Reqs |-> IdleReq]
  /\ serial = TRUE
  /\ KitchenIdle

\* A request is taken up by a free slot; a server that takes one request at
\* a time has one slot, the first.
Admit(r) ==
  /\ req[r].pc = "idle"
  /\ serial => r = 1

LiveIds == DOMAIN entries

\* Waitlist.countDocuments({ status: 'waiting' })
CountWaiting(store) ==
  Cardinality({i \in DOMAIN store : store[i].status = "waiting"})

\* A collection without the unique index.
EmailTaken_NoIndex(store, email, self) == FALSE

\* unique index on email: does a document other than `self` hold `email`?
EmailTaken(store, email, self) ==
  \E i \in DOMAIN store : i # self /\ store[i].email = email

\* The hook without the "+ 1".
PreSavePosition_OffByOne(isNew, status, position, store) ==
  IF isNew /\ status = "waiting" THEN CountWaiting(store) ELSE position

\* waitlistSchema.pre('save'): the position the hook leaves on the document
PreSavePosition(isNew, status, position, store) ==
  IF isNew /\ status = "waiting" THEN CountWaiting(store) + 1 ELSE position

\* The response: the handler's locals are gone, the outcome is what is left.
Response(op, result) == [IdleReq EXCEPT !.op = op, !.pc = "done", !.res = result]

Done(r, result) == Response(req[r].op, result)

\* ---------------------------------------------------- POST /api/waitlist
\* The findOne with the filter value compared as sent.
FindOneByEmail_Uncast(store, email) ==
  {i \in DOMAIN store : store[i].email = email}

\* Waitlist.findOne({ email }): the filter value is cast through the schema
\* setters, like every value of the email path.
FindOneByEmail(store, email) ==
  {i \in DOMAIN store : store[i].email = NormalizeEmail(email)}

\* The request arrives; validateRequest rejects a malformed email; the
\* handler runs to its first await, the findOne, and answers 400 when a
\* document is found.
JoinFindOne(r, raw) ==
  /\ Admit(r)
  /\ UNCHANGED <<entries, nextId, now, serial, kitchen>>
  /\ LET start == [IdleReq EXCEPT !.op = "join", !.email = raw]
     IN req' = [req EXCEPT ![r] =
          IF ~IsEmail(raw)
          THEN Response(start.op, "validation_error")
          ELSE IF FindOneByEmail(entries, raw) # {}
          THEN Response(start.op, "duplicate")
          ELSE [start EXCEPT !.pc = "presave"]]

\* Waitlist.create(userInfo), first await: the document is built (the
\* setters cast its email, its status is the default 'waiting': userInfo
\* carries none) and the pre-save hook counts the waiting documents and
\* sets this.position.
JoinPreSave(r) ==
  /\ req[r].pc = "presave"
  /\ UNCHANGED <<entries, nextId, now, serial, kitchen>>
  /\ req' = [req EXCEPT ![r].pc = "insert",
                        ![r].email = NormalizeEmail(@),
                        ![r].position = PreSavePosition(TRUE, "waiting", 0, entries)]

\* Waitlist.create(userInfo), second await: the insert.  The unique index
\* rejects a second document with the same (cast) email: E11000.
JoinInsert(r) ==
  /\ req[r].pc = "insert"
  /\ UNCHANGED <<now, serial, kitchen>>
  /\ LET email == req[r].email
     IN IF EmailTaken(entries, email, 0)
        THEN /\ req' = [req EXCEPT ![r] = Done(r, "duplicate_key")]
             /\ UNCHANGED <<entries, nextId>>
        ELSE /\ nextId <= MaxIds
             /\ entries' = entries @@ (nextId :>
                  [email |-> email, position |-> req[r].position,
                   status |-> "waiting", invitedAt |-> NoDate,
                   registeredAt |-> NoDate])
             /\ nextId' = nextId + 1
             /\ req' = [req EXCEPT ![r].pc = "total", ![r].id = nextId]

EstimatedWaitTime_Floor(totalCount) == totalCount \div 100

\* Math.ceil(totalCount / 100)
EstimatedWaitTime(totalCount) == (totalCount + 99) \div 100

\* Waitlist.getTotalCount(), then the 201 response with totalCount and
\* estimatedWaitTime.
JoinRespond(r) ==
  /\ req[r].pc = "total"
  /\ UNCHANGED <<entries, nextId, now, serial, kitchen>>
  /\ LET totalCount == CountWaiting(entries)
     IN req' = [req EXCEPT ![r] =
          [Done(r, "success") EXCEPT
             !.totalCount = totalCount,
             !.estimatedWaitTime = EstimatedWaitTime(totalCount)]]

\* ------------------------------------------- POST /api/waitlist/:id/invite
\* The invite route without its check of the status.
InviteFind_NoStatusCheck(r, id) ==
  /\ Admit(r)
  /\ UNCHANGED <<entries, nextId, now, serial, kitchen>>
  /\ LET start == [IdleReq EXCEPT !.op = "invite", !.id = id]
     IN req' = [req EXCEPT ![r] =
          IF id \notin LiveIds
          THEN Response(start.op, "not_found")
          ELSE [start EXCEPT !.pc = "save"]]

InviteFind(r, id) ==
  /\ Admit(r)
  /\ UNCHANGED <<entries, nextId, now, serial, kitchen>>
  /\ LET start == [IdleReq EXCEPT !.op = "invite", !.id = id]
     IN req' = [req EXCEPT ![r] =
          IF id \notin LiveIds
          THEN Response(start.op, "not_found")
          ELSE IF entries[id].status # "waiting"
          THEN Response(start.op, "invalid_state")
          ELSE [start EXCEPT !.pc = "save"]]

\* invite() without the invitedAt stamp.
InviteSave_NoStamp(r) ==
  /\ req[r].pc = "save" /\ req[r].op = "invite"
  /\ UNCHANGED <<nextId, serial, kitchen>>
  /\ LET id == req[r].id
     IN IF id \notin LiveIds
        THEN /\ req' = [req EXCEPT ![r] = Done(r, "internal_error")]
             /\ UNCHANGED <<entries, now>>
        ELSE /\ now < MaxTime
             /\ now' = now + 1
             /\ entries' = [entries EXCEPT ![id].status = "invited"]
             /\ req' = [req EXCEPT ![r] = Done(r, "success")]

\* waitlistSchema.methods.invite: save() writes the modified paths of the
\* loaded document; it fails when the document is gone.
InviteSave(r) ==
  /\ req[r].pc = "save" /\ req[r].op = "invite"
  /\ UNCHANGED <<nextId, serial, kitchen>>
  /\ LET id == req[r].id
     IN IF id \notin LiveIds
        THEN /\ req' = [req EXCEPT ![r] = Done(r, "internal_error")]
             /\ UNCHANGED <<entries, now>>
        ELSE /\ now < MaxTime
             /\ now' = now + 1
             /\ entries' = [entries EXCEPT
                  ![id].status = "invited",
                  ![id].invitedAt = now',
                  ![id].position = PreSavePosition(FALSE, "invited", @, entries)]
             /\ req' = [req EXCEPT ![r] = Done(r, "success")]

\* ----------------------------------------- POST /api/waitlist/:id/register
\* The register route with the precondition of the invite route.
RegisterFind_InvitedOnly(r, id) ==
  /\ Admit(r)
  /\ UNCHANGED <<entries, nextId, now, serial, kitchen>>
  /\ LET start == [IdleReq EXCEPT !.op = "register", !.id = id]
     IN req' = [req EXCEPT ![r] =
          IF id \notin LiveIds
          THEN Response(start.op, "not_found")
          ELSE IF entries[id].status # "invited"
          THEN Response(start.op, "invalid_state")
          ELSE [start EXCEPT !.pc = "save"]]

RegisterFind(r, id) ==
  /\ Admit(r)
  /\ UNCHANGED <<entries, nextId, now, serial, kitchen>>
  /\ LET start == [IdleReq EXCEPT !.op = "register", !.id = id]
     IN req' = [req EXCEPT ![r] =
          IF id \notin LiveIds
          THEN Response(start.op, "not_found")
          ELSE [start EXCEPT !.pc = "save"]]

\* waitlistSchema.methods.markAsRegistered
RegisterSave(r) ==
  /\ req[r].pc = "save" /\ req[r].op = "register"
  /\ UNCHANGED <<nextId, serial, kitchen>>
  /\ LET id == req[r].id
     IN IF id \notin LiveIds
        THEN /\ req' = [req EXCEPT ![r] = Done(r, "internal_error")]
             /\ UNCHANGED <<entries, now>>
        ELSE /\ now < MaxTime
             /\ now' = now + 1
             /\ entries' = [entries EXCEPT
                  ![id].status = "registered",
                  ![id].registeredAt = now',
                  ![id].position = PreSavePosition(FALSE, "registered", @, entries)]
             /\ req' = [req EXCEPT ![r] = Done(r, "success")]

\* ------------------------------------------------- PUT /api/waitlist/:id
\* The fields of the request body the schema knows; the route validates
\* status only, and hands the whole body to findByIdAndUpdate.
Bodies ==
  [status : Statuses \cup {NoVal},
   position : BodyPositions \cup {NoPosition},
   email : BodyEmails \cup {NoEmail}]

\* The document after $set of the cast body.
ApplyBody(doc, body) ==
  [doc EXCEPT
     !.status = IF body.status = NoVal THEN @ ELSE body.status,
     !.position = IF body.position = NoPosition THEN @ ELSE body.position,
     !.email = IF body.email = NoEmail THEN @ ELSE NormalizeEmail(body.email)]

\* findByIdAndUpdate is one atomic command of the store.
Update(r, id, body) ==
  /\ Admit(r)
  /\ UNCHANGED <<nextId, now, serial, kitchen>>
  /\ LET start == [IdleReq EXCEPT !.op = "update", !.id = id]
     IN IF id \notin LiveIds
        THEN /\ req' = [req EXCEPT ![r] = Response(start.op, "not_found")]
             /\ UNCHANGED entries
        ELSE IF body.email # NoEmail /\ EmailTaken(entries, NormalizeEmail(body.email), id)
        THEN /\ req' = [req EXCEPT ![r] = Response(start.op, "duplicate_key")]
             /\ UNCHANGED entries
        ELSE /\ req' = [req EXCEPT ![r] = Response(start.op, "success")]
             /\ entries' = [entries EXCEPT ![id] = ApplyBody(@, body)]

\* ---------------------------------------------- DELETE /api/waitlist/:id
Delete(r, id) ==
  /\ Admit(r)
  /\ UNCHANGED <<nextId, now, serial, kitchen>>
  /\ LET start == [IdleReq EXCEPT !.op = "delete", !.id = id]
     IN IF id \notin LiveIds
        THEN /\ req' = [req EXCEPT ![r] = Response(start.op, "not_found")]
             /\ UNCHANGED entries
        ELSE /\ req' = [req EXCEPT ![r] = Response(start.op, "success")]
             /\ entries' = [i \in LiveIds \ {id} |-> entries[i]]

\* ------------------------------------------------------------ store faults
\* The store command a handler is waiting for fails: the handler's catch
\* passes the error on (next(error)) and the command has no effect.
AwaitPoints == {"presave", "insert", "total", "save"}

StoreFault(r) ==
  /\ req[r].pc \in AwaitPoints
  /\ UNCHANGED <<entries, nextId, now, serial, kitchen>>
  /\ req' = [req EXCEPT ![r] = Done(r, "internal_error")]

\* The response has been sent; the slot is free for the next request.
Finish(r) ==
  /\ req[r].pc = "done"
  /\ UNCHANGED <<entries, nextId, now, serial, kitchen>>
  /\ req' = [req EXCEPT ![r] = IdleReq]

\* ------------------------------------------------------------ specification
Step(r) ==
  \/ \E raw \in RawEmails : JoinFindOne(r, raw)
  \/ JoinPreSave(r)
  \/ JoinInsert(r)
  \/ JoinRespond(r)
  \/ \E id \in Ids : InviteFind(r, id)
  \/ InviteSave(r)
  \/ \E id \in Ids : RegisterFind(r, id)
  \/ RegisterSave(r)
  \/ \E id \in Ids : \E body \in Bodies : Update(r, id, body)
  \/ \E id \in Ids : Delete(r, id)
  \/ StoreFault(r)
  \/ Finish(r)

Next == \E r \in Reqs : Step(r)

Spec == Init /\ [][Next]_vars

\* Requests served one after another.
SeqSpec == SeqInit /\ [][Next]_vars

TypeOK ==
  /\ nextId \in 1..(MaxIds + 1)
  /\ now \in 0..MaxTime
  /\ LiveIds \subseteq Ids
  /\ \A i \in LiveIds : entries[i].status \in Statuses
  /\ serial => \A r \in Reqs \ {1} : req[r].pc = "idle"

\* ================================================================ recipes
\* Numbers with one decimal (ratings, averages) are kept in tenths: 4.3 is 43.

FoodIds == {1, 2}

\* A recipe document: the fields the routes below read or write.
Food(popularity, average, count, ingredients, veg, vegan, gf, spice, cuisine, difficulty) ==
  [popularity |-> popularity, average |-> average, count |-> count,
   ingredients |-> ingredients, isVegetarian |-> veg, isVegan |-> vegan,
   isGlutenFree |-> gf, spiceLevel |-> spice, cuisine |-> cuisine,
   difficulty |-> difficulty]

\* A new recipe: popularity 0, rating { average: 0, count: 0 }.
NewFood ==
  Food(0, 0, 0, << <<"t">> >>, FALSE, FALSE, FALSE, "medium", "punjabi", "easy")

\* body('rating').isFloat({ min: 1, max: 5 }): the validator reads the value
\* as text and leaves req.body alone, so the JSON number 4.5 and the JSON
\* string "1" both pass.  n is the rating in tenths.
RatingInputs ==
  { [n |-> 40, text |-> FALSE], [n |-> 45, text |-> FALSE],
    [n |-> 50, text |-> FALSE], [n |-> 10, text |-> TRUE] }

\* One recipe in the catalog, nothing viewed or rated yet.
FoodInit ==
  /\ entries = <<>>
  /\ nextId = 1
  /\ now = 0
  /\ req = [r \in Reqs |-> IdleReq]
  /\ serial = FALSE
  /\ foods = (1 :> NewFood)
  /\ freq = [r \in Reqs |-> IdleFreq]
  /\ served = [view |-> 0, rate |-> 0, created |-> 0]
  /\ out = NoOut
  /\ users = NoUsers

\* The same, the server taking one request at a time.
FoodSeqInit ==
  /\ entries = <<>>
  /\ nextId = 1
  /\ now = 0
  /\ req = [r \in Reqs |-> IdleReq]
  /\ serial = TRUE
  /\ foods = (1 :> NewFood)
  /\ freq = [r \in Reqs |-> IdleFreq]
  /\ served = [view |-> 0, rate |-> 0, created |-> 0]
  /\ out = NoOut
  /\ users = NoUsers

waitlist == <<entries, nextId, now, req, serial>>

FoodAdmit(r) ==
  /\ freq[r].pc = "idle"
  /\ serial => r = 1

FoodResponse(op, result) ==
  [IdleFreq EXCEPT !.op = op, !.pc = "done", !.res = result]

InFlight(op) == Cardinality({r \in Reqs : freq[r].op = op /\ freq[r].pc = "save"})

\* ------------------------------------------------------ GET /api/foods/:id
\* Food.findById: the document is loaded into the handler.
ViewFind(r, id) ==
  /\ FoodAdmit(r)
  /\ served.view + InFlight("view") < MaxViews
  /\ UNCHANGED <<waitlist, users, foods, served, out>>
  /\ freq' = [freq EXCEPT ![r] =
       IF id \notin DOMAIN foods
       THEN FoodResponse("view", "not_found")
       ELSE [IdleFreq EXCEPT !.op = "view", !.pc = "save", !.id = id,
                             !.pop = foods[id].popularity]]

\* food.popularity += 1; food.save(): the save writes the modified path
\* with the value computed in the handler.
ViewSave(r) ==
  /\ freq[r].op = "view" /\ freq[r].pc = "save"
  /\ UNCHANGED <<waitlist, users, out>>
  /\ foods' = [foods EXCEPT ![freq[r].id].popularity = freq[r].pop + 1]
  /\ served' = [served EXCEPT !.view = @ + 1]
  /\ freq' = [freq EXCEPT ![r] = FoodResponse("view", "success")]

\* ------------------------------------------------ POST /api/foods/:id/rate
RateFind(r, id, rating) ==
  /\ FoodAdmit(r)
  /\ served.rate + InFlight("rate") < MaxRates
  /\ UNCHANGED <<waitlist, users, foods, served, out>>
  /\ freq' = [freq EXCEPT ![r] =
       IF id \notin DOMAIN foods
       THEN FoodResponse("rate", "not_found")
       ELSE [IdleFreq EXCEPT !.op = "rate", !.pc = "save", !.id = id,
                             !.val = rating.n, !.text = rating.text,
                             !.avg = foods[id].average,
                             !.cnt = foods[id].count]]

\* Math.round(x * 10) / 10 of x = num / den (num in tenths): the nearest
\* tenth.  Where num / den lies exactly between two tenths the floating
\* point quotient falls on either side.
RoundTenths(num, den) ==
  LET q == num \div den
      rem == num % den
  IN IF 2 * rem < den THEN {q}
     ELSE IF 2 * rem > den THEN {q + 1}
     ELSE {q, q + 1}

\* (currentAverage * currentCount) + newRating, in hundredths.  With a
\* number, + adds.  With a string, + appends the rating's digit to the
\* product written in decimal ("8" + "1" is "81", "4.5" + "1" is "4.51")
\* and the division reads the text back as a number.
PlusRating(product, n, text) ==
  IF ~text THEN (product + n) * 10
  ELSE IF product % 10 = 0 THEN (product + n \div 10) * 100
  ELSE product * 10 + n \div 10

\* rating.average: min 0, max 5
AverageValid(average) == 0 <= average /\ average <= 50

\* newAverage = (currentAverage * currentCount + newRating) / (currentCount + 1),
\* rounded; rating.count += 1; food.save().  The save validates the
\* document and writes nothing when the average is out of range.
RateSave(r) ==
  /\ freq[r].op = "rate" /\ freq[r].pc = "save"
  /\ UNCHANGED <<waitlist, users, out>>
  /\ \E newAverage \in RoundTenths(PlusRating(freq[r].avg * freq[r].cnt,
                                               freq[r].val, freq[r].text),
                                    10 * (freq[r].cnt + 1)) :
       IF AverageValid(newAverage)
       THEN /\ foods' = [foods EXCEPT ![freq[r].id].average = newAverage,
                                      ![freq[r].id].count = freq[r].cnt + 1]
            /\ served' = [served EXCEPT !.rate = @ + 1]
            /\ freq' = [freq EXCEPT ![r] = FoodResponse("rate", "success")]
       ELSE /\ UNCHANGED <<foods, served>>
            /\ freq' = [freq EXCEPT ![r] = FoodResponse("rate", "validation_error")]

\* The save fails: the catch passes the error on, nothing is written.
FoodFault(r) ==
  /\ freq[r].pc = "save"
  /\ UNCHANGED <<waitlist, users, foods, served, out>>
  /\ freq' = [freq EXCEPT ![r] = FoodResponse(freq[r].op, "internal_error")]

FoodFinish(r) ==
  /\ freq[r].pc = "done"
  /\ UNCHANGED <<waitlist, users, foods, served, out>>
  /\ freq' = [freq EXCEPT ![r] = IdleFreq]

FoodStep(r) ==
  \/ \E id \in FoodIds : ViewFind(r, id)
  \/ ViewSave(r)
  \/ \E id \in FoodIds : \E rating \in RatingInputs : RateFind(r, id, rating)
  \/ RateSave(r)
  \/ FoodFault(r)
  \/ FoodFinish(r)

FoodNext == \E r \in Reqs : FoodStep(r)

\* Detail views and ratings of one recipe, interleaved at their awaits.
FoodSpec == FoodInit /\ [][FoodNext]_vars

\* The same requests served one after another.
FoodSeqSpec == FoodSeqInit /\ [][FoodNext]_vars

\* ======================================================== catalog writes
\* POST /api/foods, PUT /api/foods/:id and DELETE /api/foods/:id.  The
\* caller is the user the authentication layer has put into req.user.

UserIds == {1, 2, 3}

\* req.user.role of the three callers
RoleOf == <<"admin", "chef", "user">>

\* A recipe document with its createdBy.
OwnedFood(food, owner) ==
  [field \in DOMAIN food \cup {"createdBy"} |->
     IF field = "createdBy" THEN owner ELSE food[field]]

\* One recipe in the catalog, created by the chef.
CatalogInit ==
  /\ entries = <<>>
  /\ nextId = 1
  /\ now = 0
  /\ req = [r \in Reqs |-> IdleReq]
  /\ serial = FALSE
  /\ foods = (1 :> OwnedFood(NewFood, 2))
  /\ freq = [r \in Reqs |-> IdleFreq]
  /\ served = [view |-> 0, rate |-> 0, created |-> 1]
  /\ out = NoOut
  /\ users = NoUsers

\* The answer to a catalog request: who asked for what, and the outcome.
CatalogResponse(op, caller, id, result) ==
  [IdleFreq EXCEPT !.op = op, !.pc = "done", !.caller = caller, !.id = id,
                   !.res = result]

\* --------------------------------------------------------- POST /api/foods
\* Food.create({ ...req.body, createdBy: req.user._id }) for a body the
\* validators accept.
CreateFood(r, caller) ==
  /\ FoodAdmit(r)
  /\ served.created < MaxCreated + 1
  /\ UNCHANGED <<waitlist, users, out>>
  /\ foods' = foods @@ ((served.created + 1) :> OwnedFood(NewFood, caller))
  /\ served' = [served EXCEPT !.created = @ + 1]
  /\ freq' = [freq EXCEPT ![r] =
       CatalogResponse("create", caller, served.created + 1, "success")]

\* ------------------------------------------------------ PUT /api/foods/:id
\* Request bodies: the route validates none of their fields.
FoodBodies ==
  { [difficulty |-> "hard"], [createdBy |-> 3],
    [difficulty |-> "hard", createdBy |-> 3] }

\* $set of the fields the body carries
ApplyFoodBody(doc, body) ==
  [field \in DOMAIN doc |->
     IF field \in DOMAIN body THEN body[field] ELSE doc[field]]

\* The update route without its check of the caller.
UpdateFind_NoCheck(r, caller, id, body) ==
  /\ FoodAdmit(r)
  /\ UNCHANGED <<waitlist, users, foods, served, out>>
  /\ freq' = [freq EXCEPT ![r] =
       IF id \notin DOMAIN foods
       THEN CatalogResponse("update", caller, id, "not_found")
       ELSE [IdleFreq EXCEPT !.op = "update", !.pc = "write", !.id = id,
                             !.caller = caller, !.body = body]]

\* Food.findById, 404 when there is none, 403 unless the caller is an
\* admin or the recipe's createdBy.
UpdateFind(r, caller, id, body) ==
  /\ FoodAdmit(r)
  /\ UNCHANGED <<waitlist, users, foods, served, out>>
  /\ freq' = [freq EXCEPT ![r] =
       IF id \notin DOMAIN foods
       THEN CatalogResponse("update", caller, id, "not_found")
       ELSE IF RoleOf[caller] # "admin" /\ foods[id].createdBy # caller
       THEN CatalogResponse("update", caller, id, "forbidden")
       ELSE [IdleFreq EXCEPT !.op = "update", !.pc = "write", !.id = id,
                             !.caller = caller, !.body = body]]

\* Food.findByIdAndUpdate(req.params.id, req.body): one command of the
\* store; it yields null for a recipe deleted meanwhile and the route
\* answers all the same.
UpdateWrite(r) ==
  /\ freq[r].op = "update" /\ freq[r].pc = "write"
  /\ UNCHANGED <<waitlist, users, served, out>>
  /\ foods' =
       IF freq[r].id \in DOMAIN foods
       THEN [foods EXCEPT ![freq[r].id] = ApplyFoodBody(@, freq[r].body)]
       ELSE foods
  /\ freq' = [freq EXCEPT ![r] =
       CatalogResponse("update", freq[r].caller, freq[r].id, "success")]

\* --------------------------------------------------- DELETE /api/foods/:id
\* Food.findById, 404 when there is none, 403 unless the caller is an admin.
DeleteFind(r, caller, id) ==
  /\ FoodAdmit(r)
  /\ UNCHANGED <<waitlist, users, foods, served, out>>
  /\ freq' = [freq EXCEPT ![r] =
       IF id \notin DOMAIN foods
       THEN CatalogResponse("delete", caller, id, "not_found")
       ELSE IF RoleOf[caller] # "admin"
       THEN CatalogResponse("delete", caller, id, "forbidden")
       ELSE [IdleFreq EXCEPT !.op = "delete", !.pc = "remove", !.id = id,
                             !.caller = caller]]

\* Food.findByIdAndDelete(req.params.id)
DeleteWrite(r) ==
  /\ freq[r].op = "delete" /\ freq[r].pc = "remove"
  /\ UNCHANGED <<waitlist, users, served, out>>
  /\ foods' = [id \in DOMAIN foods \ {freq[r].id} |-> foods[id]]
  /\ freq' = [freq EXCEPT ![r] =
       CatalogResponse("delete", freq[r].caller, freq[r].id, "success")]

\* The store command the handler waits for fails: next(error), no write.
CatalogFault(r) ==
  /\ freq[r].pc \in {"write", "remove"}
  /\ UNCHANGED <<waitlist, users, foods, served, out>>
  /\ freq' = [freq EXCEPT ![r] =
       CatalogResponse(freq[r].op, freq[r].caller, freq[r].id, "internal_error")]

\* req.params.id is the _id of a recipe there is, was or will be.
CatalogNext ==
  \E r \in Reqs :
    \/ \E caller \in UserIds : CreateFood(r, caller)
    \/ \E caller \in UserIds : \E id \in 1..(MaxCreated + 1) :
         \E body \in FoodBodies : UpdateFind(r, caller, id, body)
    \/ UpdateWrite(r)
    \/ \E caller \in UserIds : \E id \in 1..(MaxCreated + 1) :
         DeleteFind(r, caller, id)
    \/ DeleteWrite(r)
    \/ CatalogFault(r)
    \/ FoodFinish(r)

\* Creates, updates and deletes of recipes, interleaved at their awaits.
CatalogSpec == CatalogInit /\ [][CatalogNext]_vars

\* ====================================================== mark as cooked
\* POST /api/recipes/:id/cook and User.incrementCookingStreak.  The clock
\* counts half days: a Date is the number of half days since the start of
\* day 0, and 24 hours (1000 * 60 * 60 * 24 ms) are TicksPerDay of them.

TicksPerDay == 2

\* stats of a new user: the schema defaults
NewUser ==
  [recipesCooked |-> 0, cookingStreak |-> 0, lastCooked |-> NoDate,
   favoriteRecipes |-> <<>>]

\* One user, one recipe, the evening of day 0; one request at a time.
CookInit ==
  /\ entries = <<>>
  /\ nextId = 1
  /\ now = 1
  /\ req = [r \in Reqs |-> IdleReq]
  /\ serial = TRUE
  /\ foods = (1 :> NewFood)
  /\ freq = [r \in Reqs |-> IdleFreq]
  /\ served = [view |-> 0, rate |-> 0, created |-> 0]
  /\ out = NoOut
  /\ users = (3 :> NewUser)

\* Half a day passes.
CookTick ==
  /\ now < TicksPerDay * MaxDays
  /\ now' = now + 1
  /\ UNCHANGED <<entries, nextId, req, serial, foods, freq, served, out, users>>

\* userSchema.methods.incrementCookingStreak, on the document in memory
incrementCookingStreak(user, today) ==
  LET daysDiff == (today - user.lastCooked) \div TicksPerDay
  IN [user EXCEPT
        !.cookingStreak =
           IF user.lastCooked = NoDate THEN 1
           ELSE IF daysDiff = 1 THEN @ + 1
           ELSE IF daysDiff > 1 THEN 1
           ELSE @,
        !.lastCooked = today,
        !.recipesCooked = @ + 1]

\* req.user is the caller's document as loaded for this request;
\* Food.findById, 404 when there is no such recipe.
CookFind(r, caller, id) ==
  /\ FoodAdmit(r)
  /\ users[caller].recipesCooked < MaxCooks
  /\ UNCHANGED <<waitlist, users, foods, served, out>>
  /\ freq' = [freq EXCEPT ![r] =
       IF id \notin DOMAIN foods
       THEN CatalogResponse("cook", caller, id, "not_found")
       ELSE [IdleFreq EXCEPT !.op = "cook", !.pc = "cook", !.id = id,
                             !.caller = caller, !.user = users[caller]]]

\* await req.user.incrementCookingStreak(): the document in memory is
\* changed and saved; the response then adds one to what it holds.
CookSave(r) ==
  LET user == incrementCookingStreak(freq[r].user, now)
  IN /\ freq[r].op = "cook" /\ freq[r].pc = "cook"
     /\ UNCHANGED <<waitlist, foods, served, out>>
     /\ users' = [users EXCEPT ![freq[r].caller] =
          [@ EXCEPT !.cookingStreak = user.cookingStreak,
                    !.lastCooked = user.lastCooked,
                    !.recipesCooked = user.recipesCooked]]
     /\ freq' = [freq EXCEPT ![r] =
          [CatalogResponse("cook", freq[r].caller, freq[r].id, "success")
             EXCEPT !.userStats =
               [recipesCooked |-> user.recipesCooked + 1,
                cookingStreak |-> user.cookingStreak + 1]]]

\* save() fails: next(error), nothing is written.
CookFault(r) ==
  /\ freq[r].op = "cook" /\ freq[r].pc = "cook"
  /\ UNCHANGED <<waitlist, users, foods, served, out>>
  /\ freq' = [freq EXCEPT ![r] =
       CatalogResponse("cook", freq[r].caller, freq[r].id, "internal_error")]

CookNext ==
  \/ CookTick
  \/ \E r \in Reqs :
       \/ \E caller \in DOMAIN users : \E id \in FoodIds : CookFind(r, caller, id)
       \/ CookSave(r)
       \/ CookFault(r)
       \/ FoodFinish(r)

\* Recipes marked as cooked over some days, one request at a time.
CookSpec == CookInit /\ [][CookNext]_vars

\* ========================================================= recipe lookups
\* GET /api/recipes/recommendations and POST /api/recipes/by-ingredients
\* read the catalog and answer; out holds the answer until it is sent.

Tomato == <<"t", "o", "m", "a", "t", "o">>
Onion == <<"o", "n", "i", "o", "n">>
Cumin == <<"c", "u", "m", "i", "n">>
Salt == <<"s", "a", "l", "t">>

\* Recipes of the sampled catalogs.  Ingredient names are stored trimmed
\* but in the case they were written in.
SampleFoods ==
  { Food(2, 45, 2, <<<<"T", "o", "m", "a", "t", "o">>, Onion, Cumin, Salt>>,
         TRUE, FALSE, TRUE, "medium", "punjabi", "easy"),
    Food(1, 40, 1, <<Tomato>>, TRUE, TRUE, TRUE, "mild", "gujarati", "medium"),
    Food(2, 30, 4, <<Tomato>>, FALSE, FALSE, FALSE, "hot", "punjabi", "hard"),
    Food(0, 0, 0, <<Onion, Salt>>, TRUE, FALSE, FALSE, "extra-hot", "bengali", "easy"),
    Food(3, 30, 1, <<Salt, Cumin>>, TRUE, TRUE, FALSE, "medium", "bengali", "medium") }

\* A catalog of n recipes every profile with punjabi (or no) favorites
\* admits, to reach the default and the largest limit.
BigCatalog(n) ==
  [i \in 1..n |->
     Food(i % 4, 30 + (i % 3), 1, <<Tomato>>, TRUE, TRUE, TRUE, "mild", "punjabi", "easy")]

\* The catalogs a lookup may find: the recipes in insertion order.
Catalogs ==
  UNION {[1..n -> SampleFoods] : n \in 0..MaxFoods}
    \cup {BigCatalog(11), BigCatalog(21)}

RecipeInit ==
  /\ entries = <<>>
  /\ nextId = 1
  /\ now = 0
  /\ req = [r \in Reqs |-> IdleReq]
  /\ serial = FALSE
  /\ foods \in Catalogs
  /\ freq = [r \in Reqs |-> IdleFreq]
  /\ served = [view |-> 0, rate |-> 0, created |-> 0]
  /\ out = NoOut
  /\ users = NoUsers

NoLimit == -1        \* the request names no limit
DefaultLimit == 10
MaxLimit == 20

LimitInputs == {NoLimit, 0, 1, 2, MaxLimit, MaxLimit + 1}

\* isInt({ min: 1, max: 20 }), optional
LimitValid(limit) == limit = NoLimit \/ (1 <= limit /\ limit <= MaxLimit)

\* parseInt(req.query.limit) || 10, and { limit = 10 } = req.body
EffectiveLimit(limit) == IF limit = NoLimit THEN DefaultLimit ELSE limit

Range(s) == {s[i] : i \in DOMAIN s}

Min(a, b) == IF a < b THEN a ELSE b

\* The elements of S in the order `before`, a strict total order on S given
\* as the set of its pairs (Query.prototype.sort, Array.prototype.sort).
Sorted(S, before) ==
  LET ahead == {<<x, Cardinality({y \in S : <<y, x>> \in before})>> : x \in S}
  IN [i \in 1..Cardinality(S) |-> (CHOOSE p \in ahead : p[2] = i - 1)[1]]

\* Query.prototype.limit, Array.prototype.slice(0, n)
Take(s, n) == SubSeq(s, 1, Min(n, Len(s)))

\* Documents equal on every sort key come in an order the store chooses:
\* here in insertion order or against it.
TieOrders == {"natural", "reverse"}

TieBefore(a, b, tie) == IF tie = "natural" THEN a < b ELSE a > b

\* ------------------------------------------- GET /api/recipes/recommendations
DietaryInputs ==
  { {}, {"vegetarian", "keto"}, {"vegan", "gluten-free"} }

CuisineInputs == { {}, {"punjabi", "gujarati"} }

\* "expert" stands for a stored level the route's table does not list.
ExperienceInputs == {"beginner", "intermediate", "advanced", "professional", "expert"}

spiceLevels == <<"mild", "medium", "hot", "extra-hot">>

Profiles ==
  [dietaryPreferences : DietaryInputs, spiceLevel : Range(spiceLevels),
   favoriteCuisines : CuisineInputs, cookingExperience : ExperienceInputs]

\* Array.prototype.indexOf, counted from 0; -1 when absent
IndexOf(s, x) ==
  IF \E i \in DOMAIN s : s[i] = x
  THEN (CHOOSE i \in DOMAIN s : s[i] = x /\ \A j \in 1..(i - 1) : s[j] # x) - 1
  ELSE -1

allowedSpiceLevels_OneMore(level) ==
  Range(SubSeq(spiceLevels, 1, Min(IndexOf(spiceLevels, level) + 2, Len(spiceLevels))))

\* spiceLevels.slice(0, userSpiceIndex + 1)
allowedSpiceLevels(level) ==
  Range(SubSeq(spiceLevels, 1, IndexOf(spiceLevels, level) + 1))

experienceMap_Open(experience) ==
  CASE experience = "beginner" -> {"easy"}
    [] experience = "intermediate" -> {"easy", "medium"}
    [] OTHER -> {"easy", "medium", "hard"}

\* experienceMap[user.profile.cookingExperience] || ['easy']
experienceMap(experience) ==
  CASE experience = "beginner" -> {"easy"}
    [] experience = "intermediate" -> {"easy", "medium"}
    [] experience = "advanced" -> {"easy", "medium", "hard"}
    [] experience = "professional" -> {"easy", "medium", "hard"}
    [] OTHER -> {"easy"}

\* The filter object: the fields the route puts into it, each with the
\* values a recipe may have there ($in, or the one value required).
BuildFilter(profile) ==
  LET diet == profile.dietaryPreferences
      fields ==
        (IF "vegetarian" \in diet THEN {"isVegetarian"} ELSE {})
          \cup (IF "vegan" \in diet THEN {"isVegan"} ELSE {})
          \cup (IF "gluten-free" \in diet THEN {"isGlutenFree"} ELSE {})
          \cup {"spiceLevel"}
          \cup (IF profile.favoriteCuisines # {} THEN {"cuisine"} ELSE {})
          \cup {"difficulty"}
  IN [field \in fields |->
        CASE field = "spiceLevel" -> allowedSpiceLevels(profile.spiceLevel)
          [] field = "cuisine" -> profile.favoriteCuisines
          [] field = "difficulty" -> experienceMap(profile.cookingExperience)
          [] OTHER -> {TRUE}]

\* Food.find(filter): the documents that have an allowed value in every
\* field of the filter.
Find(filter) ==
  {id \in DOMAIN foods : \A field \in DOMAIN filter : foods[id][field] \in filter[field]}

RecommendBefore_ByPopularity(a, b, tie) ==
  \/ foods[a].popularity > foods[b].popularity
  \/ foods[a].popularity = foods[b].popularity /\ TieBefore(a, b, tie)

\* .sort({ popularity: -1, 'rating.average': -1 })
RecommendBefore(a, b, tie) ==
  \/ foods[a].popularity > foods[b].popularity
  \/ /\ foods[a].popularity = foods[b].popularity
     /\ foods[a].average > foods[b].average
  \/ /\ foods[a].popularity = foods[b].popularity
     /\ foods[a].average = foods[b].average
     /\ TieBefore(a, b, tie)

Recommend(profile, limit, tie) ==
  /\ out = NoOut
  /\ UNCHANGED <<waitlist, users, foods, freq, served>>
  /\ out' =
       IF ~LimitValid(limit)
       THEN [route |-> "recommendations", res |-> "validation_error"]
       ELSE [route |-> "recommendations", res |-> "success",
             profile |-> profile, limit |-> limit,
             recommendations |->
               LET found == Find(BuildFilter(profile))
               IN Take(Sorted(found,
                              {<<a, b>> \in found \X found : RecommendBefore(a, b, tie)}),
                       EffectiveLimit(limit))]

\* ------------------------------------------ POST /api/recipes/by-ingredients
\* req.body.ingredients: lists of strings
IngredientInputs ==
  { <<Tomato, Onion>>,
    << <<"T", "O", "m", "A", "t", "o">> >>,
    << <<" ", "s", "a", "l", "t">>, Cumin >>,
    << <<"m", "a", "t">> >>,
    << <<"o", ".", "i">> >>,
    << <<" ">> >>,
    <<>> }

\* isArray({ min: 1 }); each element isString().trim().notEmpty()
IngredientsValid(ingredients) ==
  /\ Len(ingredients) >= 1
  /\ \A i \in DOMAIN ingredients : Trim(ingredients[i]) # <<>>

\* String.prototype.includes
Includes(name, part) ==
  \E at \in 0..(Len(name) - Len(part)) : SubSeq(name, at + 1, at + Len(part)) = part

\* new RegExp(pattern, 'i').test(name): the pattern matches somewhere in
\* the name, letters without regard to case, "." standing for any one
\* character.  (Of the characters a pattern treats specially only "."
\* occurs in the inputs here.)
RegExpTest(pattern, name) ==
  \E at \in 0..(Len(name) - Len(pattern)) :
    \A i \in 1..Len(pattern) :
      pattern[i] = "." \/ LowerChar(pattern[i]) = LowerChar(name[at + i])

\* { 'ingredients.name': { $in: [regular expressions] } }: some ingredient
\* name matches some expression.
FindByIngredients(searchIngredients) ==
  {id \in DOMAIN foods :
     \E k \in DOMAIN foods[id].ingredients : \E j \in DOMAIN searchIngredients :
       RegExpTest(searchIngredients[j], foods[id].ingredients[k])}

PopularityBefore_Natural(a, b, tie) == a < b

\* .sort({ popularity: -1 })
PopularityBefore(a, b, tie) ==
  \/ foods[a].popularity > foods[b].popularity
  \/ foods[a].popularity = foods[b].popularity /\ TieBefore(a, b, tie)

IsMatched(name, searchIngredients) ==
  \E j \in DOMAIN searchIngredients : Includes(Lowercase(name), searchIngredients[j])

\* recipes.map: matchedIngredients and matchScore, the score kept as the
\* fraction num / den.
Score(id, searchIngredients) ==
  LET matchedIngredients ==
        SelectSeq(foods[id].ingredients, LAMBDA name : IsMatched(name, searchIngredients))
  IN [id |-> id,
      num |-> Len(matchedIngredients),
      den |-> Len(foods[id].ingredients),
      matchedIngredients |-> matchedIngredients]

\* a.matchScore > b.matchScore
ScoreAbove(a, b) == a.num * b.den > b.num * a.den

\* scoredRecipes.sort((a, b) => b.matchScore - a.matchScore): a stable
\* sort, equal scores keep the order they came in.
SortByScore(scored) ==
  LET before ==
        {<<i, j>> \in (DOMAIN scored) \X (DOMAIN scored) :
           \/ ScoreAbove(scored[i], scored[j])
           \/ ~ScoreAbove(scored[j], scored[i]) /\ i < j}
      order == Sorted(DOMAIN scored, before)
  IN [i \in DOMAIN scored |-> scored[order[i]]]

MatchByIngredients(ingredients, limit, tie) ==
  /\ out = NoOut
  /\ UNCHANGED <<waitlist, users, foods, freq, served>>
  /\ out' =
       IF ~IngredientsValid(ingredients) \/ ~LimitValid(limit)
       THEN [route |-> "by-ingredients", res |-> "validation_error"]
       ELSE LET searchIngredients ==
                  [i \in DOMAIN ingredients |-> Lowercase(Trim(ingredients[i]))]
                found == FindByIngredients(searchIngredients)
                recipes ==
                  Take(Sorted(found,
                              {<<a, b>> \in found \X found : PopularityBefore(a, b, tie)}),
                       EffectiveLimit(limit))
                scoredRecipes ==
                  [i \in DOMAIN recipes |-> Score(recipes[i], searchIngredients)]
            IN [route |-> "by-ingredients", res |-> "success",
                ingredients |-> ingredients, limit |-> limit,
                searchIngredients |-> searchIngredients,
                recipes |-> SortByScore(scoredRecipes)]

\* res.json: the answer leaves the handler.
Send ==
  /\ out # NoOut
  /\ UNCHANGED <<waitlist, users, foods, freq, served>>
  /\ out' = NoOut

\* ======================================================= waitlist readers
\* GET /api/waitlist/stats, GET /api/waitlist/next and GET /api/waitlist
\* read the waitlist and answer.  They are run on waitlists of some size,
\* whose documents have ids above those a join hands out.

Base == 1000

Digits == <<"0", "1", "2", "3", "4", "5", "6", "7", "8", "9">>

\* the address of the k-th sampled entry: "x" and three digits
EmailOf(k) ==
  <<"x", Digits[((k \div 100) % 10) + 1], Digits[((k \div 10) % 10) + 1],
    Digits[(k % 10) + 1]>>

Entry(email, position, status) ==
  [email |-> email, position |-> position, status |-> status,
   invitedAt |-> IF status = "invited" THEN 1 ELSE NoDate,
   registeredAt |-> IF status = "registered" THEN 1 ELSE NoDate]

\* w entries that joined one after another and wait, and after them
\* `others` entries that joined and were invited.
Queue(w, others) ==
  [i \in (Base + 1)..(Base + w + others) |->
     Entry(EmailOf(i - Base), i - Base, IF i - Base <= w THEN "waiting" ELSE "invited")]

StatsInit ==
  /\ \E w \in 0..MaxWaiting : \E others \in 0..1 : entries = Queue(w, others)
  /\ nextId = 1
  /\ now = 1
  /\ req = [r \in Reqs |-> IdleReq]
  /\ serial = TRUE
  /\ KitchenIdle

\* ------------------------------------------------- GET /api/waitlist/stats
\* Waitlist.getStats(): the number of documents of each status that occurs
GetStats(store) ==
  [status \in {store[i].status : i \in DOMAIN store} |->
     Cardinality({i \in DOMAIN store : store[i].status = status})]

Stats ==
  /\ out = NoOut
  /\ \A r \in Reqs : req[r].pc = "idle"
  /\ UNCHANGED <<waitlist, users, foods, freq, served>>
  /\ LET totalCount == CountWaiting(entries)
     IN out' = [route |-> "stats", res |-> "success",
                totalCount |-> totalCount,
                estimatedWaitTime |-> EstimatedWaitTime(totalCount),
                stats |-> GetStats(entries)]

StatsNext ==
  \/ Stats
  \/ Send
  \/ \E r \in Reqs :
       \/ \E raw \in RawEmails : JoinFindOne(r, raw)
       \/ JoinPreSave(r)
       \/ JoinInsert(r)
       \/ JoinRespond(r)
       \/ Finish(r)

\* Statistics and joins on waitlists of up to MaxWaiting waiting entries,
\* one request at a time.
StatsSpec == StatsInit /\ [][StatsNext]_vars

\* -------------------------------------------------- listed waitlists
StatusCycle == <<"waiting", "invited", "waiting", "registered", "declined">>

\* n entries of mixed status whose positions repeat and follow neither
\* the order of creation nor that of the addresses (positions assigned as
\* count + 1 repeat once entries leave the waiting state, and the admin
\* update writes any position).
Mixed(n) ==
  [i \in (Base + 1)..(Base + n) |->
     Entry(EmailOf(((i - Base) * 37) % 100),
           (((i - Base) * 3) % 7) + 1,
           StatusCycle[((i - Base) % 5) + 1])]

ListInit ==
  /\ \E n \in 0..MaxListed : entries \in {Queue(n, 0), Mixed(n)}
  /\ nextId = 1
  /\ now = 1
  /\ req = [r \in Reqs |-> IdleReq]
  /\ serial = TRUE
  /\ KitchenIdle

\* the paths of waitlistSchema a document read from the store carries
EntryFields ==
  {"email", "name", "interests", "cookingExperience", "referralSource",
   "position", "status", "invitedAt", "registeredAt", "notes", "ipAddress",
   "userAgent", "isActive", "createdAt", "updatedAt"}

\* Query.prototype.select('-a -b'): the paths left after the exclusion
Select(fields, excluded) == fields \ excluded

\* -------------------------------------------------- GET /api/waitlist/next
NextDefaultLimit == 10
NextMaxLimit == 50

NextLimitInputs == {NoLimit, 0, 1, 3, NextMaxLimit, NextMaxLimit + 1}

\* .sort({ position: 1 })
PositionBefore(a, b, tie) ==
  \/ entries[a].position < entries[b].position
  \/ entries[a].position = entries[b].position /\ TieBefore(a, b, tie)

getNextInLine_AnyStatus(limit, tie) ==
  LET found == DOMAIN entries
  IN Take(Sorted(found, {<<a, b>> \in found \X found : PositionBefore(a, b, tie)}), limit)

\* this.find({ status: 'waiting' }).sort({ position: 1 }).limit(limit)
getNextInLine(limit, tie) ==
  LET found == {i \in DOMAIN entries : entries[i].status = "waiting"}
  IN Take(Sorted(found, {<<a, b>> \in found \X found : PositionBefore(a, b, tie)}), limit)

NextInLine(limit, tie) ==
  /\ out = NoOut
  /\ UNCHANGED <<waitlist, users, foods, freq, served>>
  /\ out' =
       IF ~(limit = NoLimit \/ (1 <= limit /\ limit <= NextMaxLimit))
       THEN [route |-> "next", res |-> "validation_error"]
       ELSE [route |-> "next", res |-> "success", limit |-> limit,
             fields |-> EntryFields,
             nextUsers |->
               getNextInLine(IF limit = NoLimit THEN NextDefaultLimit ELSE limit, tie)]

\* ------------------------------------------------------- GET /api/waitlist
NoPage == -1         \* the request names no page
ListDefaultLimit == 20
ListMaxLimit == 100

PageInputs == {NoPage, 0, 2, 3, 4}
ListLimitInputs == {NoLimit, 1, 10, ListMaxLimit + 1}
StatusInputs == {NoVal, "waiting", "registered"}
SortInputs == {NoVal, "createdAt", "email"}
OrderInputs == {NoVal, "desc"}

\* the characters of the addresses, in the order of their codes
Alphabet == <<" ", "0", "1", "2", "3", "4", "5", "6", "7", "8", "9", "A", "a", "b", "x">>

CharCode(c) == CHOOSE i \in DOMAIN Alphabet : Alphabet[i] = c

\* the store's order of strings: by the first character that differs, a
\* proper prefix first
RECURSIVE StringBefore(_, _)
StringBefore(a, b) ==
  IF b = <<>> THEN FALSE
  ELSE IF a = <<>> THEN TRUE
  ELSE IF Head(a) # Head(b) THEN CharCode(Head(a)) < CharCode(Head(b))
  ELSE StringBefore(Tail(a), Tail(b))

\* a's sort key is below b's; createdAt follows the order in which the
\* ids were handed out
KeyBelow(a, b, sortField) ==
  CASE sortField = "position" -> entries[a].position < entries[b].position
    [] sortField = "createdAt" -> a < b
    [] sortField = "email" -> StringBefore(entries[a].email, entries[b].email)

\* sort[sortField] = sortOrder
ListBefore(a, b, sortField, sortOrder, tie) ==
  \/ IF sortOrder = 1 THEN KeyBelow(a, b, sortField) ELSE KeyBelow(b, a, sortField)
  \/ /\ ~KeyBelow(a, b, sortField)
     /\ ~KeyBelow(b, a, sortField)
     /\ TieBefore(a, b, tie)

\* Waitlist.find(filter) and Waitlist.countDocuments(filter)
Filtered(status) ==
  {i \in DOMAIN entries : status = NoVal \/ entries[i].status = status}

Skip_FromPage(page, limit) == page * limit

\* skip = (page - 1) * limit
Skip(page, limit) == (page - 1) * limit

\* Math.ceil(total / limit)
TotalPages(total, limit) == (total + limit - 1) \div limit

List(pageIn, limitIn, status, sortIn, orderIn, tie) ==
  /\ out = NoOut
  /\ UNCHANGED <<waitlist, users, foods, freq, served>>
  /\ out' =
       IF \/ ~(pageIn = NoPage \/ pageIn >= 1)
          \/ ~(limitIn = NoLimit \/ (1 <= limitIn /\ limitIn <= ListMaxLimit))
       THEN [route |-> "list", res |-> "validation_error"]
       ELSE LET page == IF pageIn = NoPage THEN 1 ELSE pageIn
                limit == IF limitIn = NoLimit THEN ListDefaultLimit ELSE limitIn
                sortField == IF sortIn = NoVal THEN "position" ELSE sortIn
                sortOrder == IF orderIn = "desc" THEN -1 ELSE 1
                filtered == Filtered(status)
                found == Sorted(filtered,
                                {<<a, b>> \in filtered \X filtered :
                                   ListBefore(a, b, sortField, sortOrder, tie)})
                skip == Skip(page, limit)
                total == Cardinality(Filtered(status))
                totalPages == TotalPages(total, limit)
            IN [route |-> "list", res |-> "success",
                page |-> pageIn, limit |-> limitIn, status |-> status,
                sort |-> sortIn, order |-> orderIn,
                fields |-> Select(EntryFields, {"ipAddress", "userAgent"}),
                waitlistEntries |-> SubSeq(found, skip + 1, Min(skip + limit, Len(found))),
                pagination |->
                  [currentPage |-> page, totalPages |-> totalPages,
                   totalItems |-> total, itemsPerPage |-> limit,
                   hasNextPage |-> page < totalPages, hasPrevPage |-> page > 1]]

ListNext ==
  \/ \E limit \in NextLimitInputs : \E tie \in TieOrders : NextInLine(limit, tie)
  \/ \E page \in PageInputs : \E limit \in ListLimitInputs : \E status \in StatusInputs :
       \E sort \in SortInputs : \E order \in OrderInputs : \E tie \in TieOrders :
         List(page, limit, status, sort, order, tie)
  \/ Send

\* The admin's readers on waitlists of up to MaxListed entries.
ListSpec == ListInit /\ [][ListNext]_vars

\* ============================================================ favorites
\* POST and DELETE /api/recipes/:id/favorite, GET /api/recipes/favorites,
\* User.addFavoriteRecipe and User.removeFavoriteRecipe.  An _id is a text
\* of hex digits; one digit stands for the twenty-four.

\* _id of recipe 1 and of recipe 2, as ObjectId.toString() gives them
HexId == << <<"a">>, <<"b">> >>

\* req.params.id: texts that isMongoId accepts
ParamIds == { <<"a">>, <<"A">>, <<"b">>, <<"c">> }

\* The ObjectId a text is cast to, as its toString(): hex digits denote
\* the same bytes in either case and are written back in lower case.
ObjectId(text) ==
  [i \in DOMAIN text |->
     CASE text[i] = "A" -> "a"
       [] text[i] = "B" -> "b"
       [] text[i] = "C" -> "c"
       [] OTHER -> text[i]]

\* Food.findById(req.params.id): the recipes with that _id
FindRecipe(text) == {k \in DOMAIN foods : HexId[k] = ObjectId(text)}

\* One user with some favorites, two recipes; one request at a time.
FavInit ==
  /\ entries = <<>>
  /\ nextId = 1
  /\ now = 0
  /\ req = [r \in Reqs |-> IdleReq]
  /\ serial = TRUE
  /\ foods = (1 :> NewFood) @@ (2 :> NewFood)
  /\ freq = [r \in Reqs |-> IdleFreq]
  /\ served = [view |-> 0, rate |-> 0, created |-> 0]
  /\ out = NoOut
  /\ \E favorites \in { <<>>, <<HexId[1]>>, <<HexId[2], HexId[1]>> } :
       users = (3 :> [NewUser EXCEPT !.favoriteRecipes = favorites])

\* userSchema.methods.addFavoriteRecipe, on the document in memory.
\* MongooseArray.includes(recipeId) is obj == this[i], the text against the
\* toString() of each ObjectId held; push casts the text to an ObjectId.
addFavoriteRecipe(user, recipeId) ==
  IF ~(\E i \in DOMAIN user.favoriteRecipes : user.favoriteRecipes[i] = recipeId)
  THEN [user EXCEPT !.favoriteRecipes = Append(@, ObjectId(recipeId))]
  ELSE user

\* userSchema.methods.removeFavoriteRecipe:
\* filter(id => id.toString() !== recipeId.toString())
removeFavoriteRecipe(user, recipeId) ==
  [user EXCEPT !.favoriteRecipes =
     SelectSeq(@, LAMBDA id : id # recipeId)]

\* Food.findById for either route, 404 when there is no such recipe;
\* req.user is the caller's document as loaded for this request.
FavoriteFind(r, op, caller, text) ==
  /\ FoodAdmit(r)
  /\ op = "favorite" => Len(users[caller].favoriteRecipes) < MaxFavorites
  /\ UNCHANGED <<waitlist, users, foods, served, out>>
  /\ freq' = [freq EXCEPT ![r] =
       IF FindRecipe(text) = {}
       THEN [CatalogResponse(op, caller, 0, "not_found") EXCEPT !.param = text]
       ELSE [IdleFreq EXCEPT !.op = op, !.pc = "favorite", !.param = text,
                             !.caller = caller, !.user = users[caller]]]

\* await req.user.addFavoriteRecipe(req.params.id) or
\* removeFavoriteRecipe(req.params.id), with its save() of the array.
FavoriteSave(r) ==
  LET user == IF freq[r].op = "favorite"
              THEN addFavoriteRecipe(freq[r].user, freq[r].param)
              ELSE removeFavoriteRecipe(freq[r].user, freq[r].param)
  IN /\ freq[r].op \in {"favorite", "unfavorite"} /\ freq[r].pc = "favorite"
     /\ UNCHANGED <<waitlist, foods, served, out>>
     /\ users' = [users EXCEPT ![freq[r].caller] =
          [@ EXCEPT !.favoriteRecipes = user.favoriteRecipes]]
     /\ freq' = [freq EXCEPT ![r] =
          [CatalogResponse(freq[r].op, freq[r].caller, 0, "success")
             EXCEPT !.param = freq[r].param]]

\* save() fails: next(error), nothing is written.
FavoriteFault(r) ==
  /\ freq[r].op \in {"favorite", "unfavorite"} /\ freq[r].pc = "favorite"
  /\ UNCHANGED <<waitlist, users, foods, served, out>>
  /\ freq' = [freq EXCEPT ![r] =
       [CatalogResponse(freq[r].op, freq[r].caller, 0, "internal_error")
          EXCEPT !.param = freq[r].param]]

\* ------------------------------------------------ GET /api/recipes/favorites
FavDefaultLimit == 12
FavMaxLimit == 50

FavPageInputs == {NoPage, 0, 1, 2}
FavLimitInputs == {NoLimit, 1, 2, FavMaxLimit + 1}

\* populate({ path: 'stats.favoriteRecipes', options: { skip, limit,
\* sort: { createdAt: -1 } } }): the recipes the array refers to, newest
\* first, the page of them put in the place of the array.
PopulateFavorites(favorites, skip, limit) ==
  LET ids == {k \in DOMAIN foods : HexId[k] \in Range(favorites)}
      sorted == Sorted(ids, {p \in ids \X ids : p[1] > p[2]})
  IN Take(SubSeq(sorted, skip + 1, Len(sorted)), limit)

Favorites(caller, pageIn, limitIn) ==
  /\ out = NoOut
  /\ UNCHANGED <<waitlist, users, foods, freq, served>>
  /\ out' =
       IF \/ ~(pageIn = NoPage \/ pageIn >= 1)
          \/ ~(limitIn = NoLimit \/ (1 <= limitIn /\ limitIn <= FavMaxLimit))
       THEN [route |-> "favorites", res |-> "validation_error"]
       ELSE LET page == IF pageIn = NoPage THEN 1 ELSE pageIn
                limit == IF limitIn = NoLimit THEN FavDefaultLimit ELSE limitIn
                favoriteRecipes ==
                  PopulateFavorites(users[caller].favoriteRecipes,
                                    Skip(page, limit), limit)
                totalFavorites == Len(favoriteRecipes)
                totalPages == TotalPages(totalFavorites, limit)
            IN [route |-> "favorites", res |-> "success", caller |-> caller,
                favoriteRecipes |-> favoriteRecipes,
                currentPage |-> page,
                totalPages |-> totalPages,
                totalItems |-> totalFavorites,
                itemsPerPage |-> limit,
                hasNextPage |-> page < totalPages,
                hasPrevPage |-> page > 1]

FavNext ==
  \/ \E r \in Reqs : \E op \in {"favorite", "unfavorite"} :
       \E caller \in DOMAIN users : \E text \in ParamIds :
         FavoriteFind(r, op, caller, text)
  \/ \E r \in Reqs : FavoriteSave(r)
  \/ \E r \in Reqs : FavoriteFault(r)
  \/ \E r \in Reqs : FoodFinish(r)
  \/ \E caller \in DOMAIN users : \E pageIn \in FavPageInputs :
       \E limitIn \in FavLimitInputs : Favorites(caller, pageIn, limitIn)
  \/ Send

\* Favorites added, removed and listed, one request at a time.
FavSpec == FavInit /\ [][FavNext]_vars

\* ================================================================== claims
Present(store, raw) == \E i \in DOMAIN store : store[i].email = NormalizeEmail(raw)

ErrorResults ==
  {"validation_error", "duplicate", "duplicate_key", "not_found",
   "invalid_state", "internal_error"}

\* ids live before and after a step
Kept == LiveIds \cap DOMAIN entries'

C2_PositionsIncreaseInCreationOrder ==
  \A i, j \in LiveIds : i < j => entries[i].position < entries[j].position

\* C3: the count of waiting entries and the write of the new entry's
\* position are one indivisible step: the position written is the count of
\* waiting entries at the moment of the write plus 1, and no two entries
\* created by joins hold the same position.
C3_PositionAssignmentAtomic ==
  [][\A r \in Reqs :
       (req[r].pc = "insert" /\ req'[r].pc = "total") =>
          /\ entries'[req'[r].id].position = CountWaiting(entries) + 1
          /\ \A i \in LiveIds :
                entries[i].position # entries'[req'[r].id].position]_vars

\* C4: at most one entry per normalized email, and every stored email is
\* normalized.
C4_OneEntryPerEmail ==
  \A i, j \in LiveIds :
     /\ entries[i].email = NormalizeEmail(entries[i].email)
     /\ (i # j => entries[i].email # entries[j].email)

\* C4 witness: a join lost at the unique index (the findOne of two joins
\* with the same email both found nothing), with one entry in the store.
C4_Witness ==
  \E r \in Reqs : /\ req[r].op = "join" /\ req[r].pc = "done"
                  /\ req[r].res = "duplicate_key" /\ LiveIds # {}

\* Every entry waiting, positions exactly 1..n: the store after n joins
\* served one after another and nothing else.
JoinsOnly(store) ==
  /\ \A i \in DOMAIN store : store[i].status = "waiting"
  /\ {store[i].position : i \in DOMAIN store} = 1..Cardinality(DOMAIN store)

\* C5: with requests served one after another, the insert of a join
\* creates one entry, with status waiting and position = (number of waiting
\* entries at that moment) + 1, and changes no other entry; when every
\* earlier entry is still waiting with its position 1..n, the new position
\* n+1 is above all of them.
C5_JoinPositionIsCountPlusOne ==
  [][\A r \in Reqs :
       (req[r].pc = "insert" /\ req'[r].pc = "total") =>
          LET id == req'[r].id
          IN /\ id \notin LiveIds
             /\ DOMAIN entries' = LiveIds \cup {id}
             /\ \A i \in LiveIds : entries'[i] = entries[i]
             /\ entries'[id].status = "waiting"
             /\ entries'[id].position = CountWaiting(entries) + 1
             /\ JoinsOnly(entries) =>
                   /\ JoinsOnly(entries')
                   /\ \A i \in LiveIds :
                         entries[i].position < entries'[id].position]_vars

\* C5 witness: a second join has been served after a first one that is
\* still waiting; the positions are 1 and 2.
C5_Witness ==
  /\ Cardinality(LiveIds) = 2
  /\ JoinsOnly(entries)
  /\ \E r \in Reqs : req[r].op = "join" /\ req[r].pc = "total"

\* C6: no operation changes the position of an existing entry.
C6_PositionNeverChanges ==
  [][\A i \in Kept : entries'[i].position = entries[i].position]_vars

LifecycleEdges ==
  {<<"waiting", "invited">>, <<"invited", "registered">>, <<"waiting", "declined">>}

\* C7 (as claimed): the status of an entry changes only along a lifecycle
\* edge.
C7_OnlyLifecycleEdges ==
  [][\A i \in Kept :
       entries'[i].status # entries[i].status =>
          <<entries[i].status, entries'[i].status>> \in LifecycleEdges]_vars

\* C7 (amended): with requests served one after another, a status changes
\* only in the save of an invite, from
\* waiting to invited; in the save of a markRegistered, from any status to
\* registered; or in an admin update, to the status of the request body.
\* Join and delete change the status of no existing entry.
C7_StatusChanges ==
  [][\A i \in Kept :
       entries'[i].status # entries[i].status =>
          \/ /\ \E r \in Reqs : req[r].op = "invite" /\ req[r].id = i /\ InviteSave(r)
             /\ entries[i].status = "waiting"
             /\ entries'[i].status = "invited"
          \/ /\ \E r \in Reqs : req[r].op = "register" /\ req[r].id = i /\ RegisterSave(r)
             /\ entries'[i].status = "registered"
          \/ \E r \in Reqs : \E body \in Bodies :
                /\ Update(r, i, body)
                /\ body.status \in Statuses
                /\ entries'[i].status = body.status]_vars

\* C7 witness: an entry is registered that was never invited, after a
\* markRegistered that succeeded.
C7_Witness ==
  \E i \in LiveIds :
     /\ entries[i].status = "registered"
     /\ entries[i].invitedAt = NoDate
     /\ entries[i].registeredAt # NoDate

\* C8: with requests served one after another, invite(id) answers
\* not-found for an unknown id and invalid-state for an entry that is not
\* waiting, and leaves the store unchanged in both cases; it succeeds only
\* on a waiting entry, and then sets status to invited and invitedAt to the
\* current date, and nothing else.
C8_Invite ==
  [][\A r \in Reqs :
       /\ \A id \in Ids :
            (req[r].pc = "idle" /\ req'[r].op = "invite" /\ InviteFind(r, id)) =>
               /\ entries' = entries
               /\ id \notin LiveIds =>
                     req'[r].pc = "done" /\ req'[r].res = "not_found"
               /\ (id \in LiveIds /\ entries[id].status # "waiting") =>
                     req'[r].pc = "done" /\ req'[r].res = "invalid_state"
               /\ (id \in LiveIds /\ entries[id].status = "waiting") =>
                     req'[r].pc = "save" /\ req'[r].id = id
       /\ (req[r].op = "invite" /\ req'[r].pc = "done" /\ req'[r].res = "success") =>
            /\ req[r].id \in LiveIds
            /\ entries[req[r].id].status = "waiting"
            /\ now' > now
            /\ entries' = [entries EXCEPT ![req[r].id].status = "invited",
                                          ![req[r].id].invitedAt = now']
       /\ (req[r].op = "invite" /\ req'[r].pc = "done" /\ req'[r].res # "success") =>
            entries' = entries]_vars

\* C8 witness: an invite was refused on an entry that is already invited
\* by an earlier invite.
C8_Witness ==
  /\ \E r \in Reqs : /\ req[r].op = "invite" /\ req[r].pc = "done"
                     /\ req[r].res = "invalid_state"
  /\ \E i \in LiveIds : entries[i].status = "invited" /\ entries[i].invitedAt # NoDate

\* C9: with requests served one after another, markRegistered(id) answers
\* not-found for an unknown id and leaves the store unchanged; on an
\* existing entry, whatever its status, it sets status to registered and
\* registeredAt to the current date, and nothing else.
C9_MarkRegistered ==
  [][\A r \in Reqs :
       /\ \A id \in Ids :
            (req[r].pc = "idle" /\ req'[r].op = "register" /\ RegisterFind(r, id)) =>
               /\ entries' = entries
               /\ id \notin LiveIds =>
                     req'[r].pc = "done" /\ req'[r].res = "not_found"
               /\ id \in LiveIds =>
                     req'[r].pc = "save" /\ req'[r].id = id
       /\ (req[r].op = "register" /\ req[r].pc = "save" /\ RegisterSave(r)) =>
            /\ req[r].id \in LiveIds
            /\ req'[r].res = "success"
            /\ now' > now
            /\ entries' = [entries EXCEPT ![req[r].id].status = "registered",
                                          ![req[r].id].registeredAt = now']]_vars

\* C9 witness: a markRegistered succeeded on an entry that was registered
\* already (its registeredAt is the second stamp) or was never invited.
C9_Witness ==
  /\ \E r \in Reqs : /\ req[r].op = "register" /\ req[r].pc = "done"
                     /\ req[r].res = "success"
  /\ \E i \in LiveIds : /\ entries[i].status = "registered"
                        /\ entries[i].registeredAt = now
                        /\ entries[i].invitedAt = NoDate

\* C10: a join that answers with an error has left no entry behind: the
\* entry the handler created, if any, is not in the store.
C10_JoinFailsAtomically ==
  [][\A r \in Reqs :
       (req'[r].op = "join" /\ req[r].pc # "done" /\ req'[r].pc = "done"
          /\ req'[r].res \in ErrorResults) =>
          /\ req[r].id \notin DOMAIN entries'
          /\ entries' = entries]_vars

AllQuiet == \A r \in Reqs : freq[r].pc = "idle"

\* C11: no update of a recipe's counters is lost: once every request has
\* been answered, the popularity of the recipe is the number of detail
\* views served and its rating.count the number of ratings accepted.
C11_NoLostCounterUpdate ==
  AllQuiet =>
    /\ foods[1].popularity = served.view
    /\ foods[1].count = served.rate

Abs(x) == IF x < 0 THEN -x ELSE x

\* C12: a rating r on a recipe with rating (average a, count c) stores
\* count c + 1 and, as average, (a*c + r)/(c + 1) rounded to one decimal:
\* a tenth no further than 0.05 from the quotient.  Average 4.0, count 2
\* and rating 5 give average 4.3, count 3.
C12_RatingUpdate ==
  [][\A r \in Reqs :
       (freq[r].op = "rate" /\ freq[r].pc = "save" /\ freq'[r].res = "success") =>
          LET id == freq[r].id
              a == foods[id].average
              c == foods[id].count
              v == freq[r].val
          IN /\ foods'[id].count = c + 1
             /\ 2 * Abs(foods'[id].average * (c + 1) - (a * c + v)) <= c + 1
             /\ (a = 40 /\ c = 2 /\ v = 50) => foods'[id].average = 43
             /\ foods'[id] = [foods[id] EXCEPT !.average = foods'[id].average,
                                               !.count = c + 1]]_vars

RecipeNext ==
  \/ \E profile \in Profiles : \E limit \in LimitInputs : \E tie \in TieOrders :
       Recommend(profile, limit, tie)
  \/ \E ingredients \in IngredientInputs : \E limit \in LimitInputs : \E tie \in TieOrders :
       MatchByIngredients(ingredients, limit, tie)
  \/ Send

RecipeSpec == RecipeInit /\ [][RecipeNext]_vars

Matched == out.route = "by-ingredients" /\ out.res = "success"

\* the supplied ingredients, normalized
Supplied == [i \in DOMAIN out.ingredients |-> Lowercase(Trim(out.ingredients[i]))]

ContainsSupplied(name) ==
  \E j \in DOMAIN Supplied : Includes(Lowercase(name), Supplied[j])

IsCandidate(id) ==
  \E k \in DOMAIN foods[id].ingredients : ContainsSupplied(foods[id].ingredients[k])

ReturnedIds(recipes) == {recipes[i].id : i \in DOMAIN recipes}

\* C13: matchByIngredients returns a recipe only if one of its ingredient
\* names contains, without regard to case, one of the supplied ingredients,
\* and (below the limit) returns every such recipe; matchedIngredients lists
\* the ingredient names that contain a supplied ingredient, and matchScore
\* is their number over the number of the recipe's ingredients, within
\* [0,1]: [tomato, onion] scores 0.5 on [tomato, onion, cumin, salt] and
\* 1.0 on [tomato].
C13_MatchByIngredients ==
  Matched =>
    /\ \A i \in DOMAIN out.recipes : IsCandidate(out.recipes[i].id)
    /\ Len(out.recipes) < EffectiveLimit(out.limit) =>
         \A id \in DOMAIN foods : IsCandidate(id) => id \in ReturnedIds(out.recipes)
    /\ \A i \in DOMAIN out.recipes :
         LET r == out.recipes[i]
             names == foods[r.id].ingredients
         IN /\ r.matchedIngredients = SelectSeq(names, ContainsSupplied)
            /\ r.num = Len(r.matchedIngredients)
            /\ r.den = Len(names)
            /\ 0 <= r.num /\ r.num <= r.den /\ r.den > 0
            /\ (Supplied = <<Tomato, Onion>> /\ Len(names) = 4 /\ Lowercase(names[1]) = Tomato)
                 => 2 * r.num = r.den
            /\ (Supplied = <<Tomato, Onion>> /\ names = <<Tomato>>) => r.num = r.den

\* C14 as stated: the returned recipes are in order of matchScore
\* descending, recipes of equal matchScore in insertion order.
C14_TiesInInsertionOrder ==
  Matched =>
    \A i, j \in DOMAIN out.recipes :
      i < j =>
        /\ ~ScoreAbove(out.recipes[j], out.recipes[i])
        /\ ~ScoreAbove(out.recipes[i], out.recipes[j]) => out.recipes[i].id < out.recipes[j].id

\* C14: the returned recipes are in order of matchScore descending, and of
\* two recipes of equal matchScore the more popular one comes first.
C14_TiesByPopularity ==
  Matched =>
    \A i, j \in DOMAIN out.recipes :
      i < j =>
        /\ ~ScoreAbove(out.recipes[j], out.recipes[i])
        /\ ~ScoreAbove(out.recipes[i], out.recipes[j]) =>
             foods[out.recipes[i].id].popularity >= foods[out.recipes[j].id].popularity

\* C14 witness: two recipes of equal score are returned, the one inserted
\* later and more popular first.
C14_Witness ==
  /\ Matched
  /\ Len(out.recipes) = 2
  /\ ~ScoreAbove(out.recipes[1], out.recipes[2])
  /\ out.recipes[1].id > out.recipes[2].id
  /\ foods[out.recipes[1].id].popularity > foods[out.recipes[2].id].popularity

Recommended == out.route = "recommendations" /\ out.res = "success"

SpiceRank(level) == CHOOSE i \in DOMAIN spiceLevels : spiceLevels[i] = level

\* C15: every recommended recipe has a spice level at or below the
\* profile's in mild < medium < hot < extra-hot; a profile with spice level
\* medium gets no hot and no extra-hot recipe.
C15_SpiceCeiling ==
  Recommended =>
    \A i \in DOMAIN out.recommendations :
      LET level == foods[out.recommendations[i]].spiceLevel
      IN /\ SpiceRank(level) <= SpiceRank(out.profile.spiceLevel)
         /\ out.profile.spiceLevel = "medium" => level \notin {"hot", "extra-hot"}

\* C15 witness: a medium profile is recommended something from a catalog
\* that holds a hot recipe.
C15_Witness ==
  /\ Recommended
  /\ out.profile.spiceLevel = "medium"
  /\ out.recommendations # <<>>
  /\ \E id \in DOMAIN foods : foods[id].spiceLevel = "hot"

Admitted(profile, f) ==
  /\ "vegetarian" \in profile.dietaryPreferences => f.isVegetarian
  /\ "vegan" \in profile.dietaryPreferences => f.isVegan
  /\ "gluten-free" \in profile.dietaryPreferences => f.isGlutenFree
  /\ profile.favoriteCuisines # {} => f.cuisine \in profile.favoriteCuisines
  /\ \/ f.difficulty = "easy"
     \/ /\ f.difficulty = "medium"
        /\ profile.cookingExperience \in {"intermediate", "advanced", "professional"}
     \/ /\ f.difficulty = "hard"
        /\ profile.cookingExperience \in {"advanced", "professional"}
  /\ SpiceRank(f.spiceLevel) <= SpiceRank(profile.spiceLevel)

\* C16: a recipe is recommended only if it has every dietary flag the
\* profile asks for, a favorite cuisine (when the profile has favorites), a
\* difficulty allowed for the experience level (an unknown level allows
\* easy only) and a spice level under the ceiling; below the limit every
\* such recipe is recommended.
C16_FilterAdmits ==
  Recommended =>
    /\ \A i \in DOMAIN out.recommendations :
         Admitted(out.profile, foods[out.recommendations[i]])
    /\ Len(out.recommendations) < EffectiveLimit(out.limit) =>
         \A id \in DOMAIN foods :
           Admitted(out.profile, foods[id]) => id \in Range(out.recommendations)

\* C16 witness: a profile with an unknown experience level is recommended
\* an easy recipe while a harder one stays out.
C16_Witness ==
  /\ Recommended
  /\ out.profile.cookingExperience = "expert"
  /\ out.recommendations # <<>>
  /\ \E id \in DOMAIN foods :
       foods[id].difficulty # "easy" /\ id \notin Range(out.recommendations)

RanksBefore(a, b) ==
  \/ foods[a].popularity > foods[b].popularity
  \/ foods[a].popularity = foods[b].popularity /\ foods[a].average > foods[b].average

\* C17: the recommendations are min(limit, number admitted) different
\* admitted recipes, the limit 10 when none is asked for and never above
\* 20, in order of popularity and then rating average, both descending,
\* and no admitted recipe left out ranks before a recommended one.
C17_TopOfFilteredCatalog ==
  Recommended =>
    LET recs == out.recommendations
        admitted == {id \in DOMAIN foods : Admitted(out.profile, foods[id])}
        limit == IF out.limit = NoLimit THEN 10 ELSE out.limit
    IN /\ limit <= 20
       /\ Len(recs) = Min(limit, Cardinality(admitted))
       /\ Range(recs) \subseteq admitted
       /\ \A i, j \in DOMAIN recs : i < j => recs[i] # recs[j] /\ ~RanksBefore(recs[j], recs[i])
       /\ \A id \in admitted \ Range(recs) : \A i \in DOMAIN recs : ~RanksBefore(id, recs[i])

\* C17 witness: no limit asked for, more than ten recipes admitted, ten
\* recommended.
C17_Witness ==
  /\ Recommended
  /\ out.limit = NoLimit
  /\ Len(out.recommendations) = 10
  /\ Cardinality(Find(BuildFilter(out.profile))) > 10

\* the least number of hundreds that hold n
Hundreds(n) == CHOOSE e \in 0..n : 100 * e >= n /\ (e = 0 \/ 100 * (e - 1) < n)

Waiting == {i \in DOMAIN entries : entries[i].status = "waiting"}

\* C18: the statistics report the number of waiting entries and, as
\* estimate, that number divided by 100 and rounded up: 0 for none, 1 for 1
\* to 100, 3 for 250; a join reports the same of the waitlist it has joined.
C18_EstimatedWait ==
  [][/\ (out = NoOut /\ out'.route = "stats") =>
          /\ out'.totalCount = Cardinality(Waiting)
          /\ out'.estimatedWaitTime = Hundreds(out'.totalCount)
          /\ out'.totalCount = 0 => out'.estimatedWaitTime = 0
          /\ out'.totalCount \in 1..100 => out'.estimatedWaitTime = 1
          /\ out'.totalCount = 250 => out'.estimatedWaitTime = 3
     /\ \A r \in Reqs :
          (req[r].pc = "total" /\ req'[r].res = "success") =>
             /\ req'[r].totalCount = Cardinality(Waiting)
             /\ req'[r].estimatedWaitTime = Hundreds(req'[r].totalCount)]_vars

\* C18 witness: the statistics have reported 250 waiting entries and three
\* days, and a join after them 251 and three days.
C18_Witness ==
  /\ out.route = "stats" /\ out.totalCount = 250 /\ out.estimatedWaitTime = 3
  /\ \E r \in Reqs :
       /\ req[r].op = "join" /\ req[r].res = "success"
       /\ req[r].totalCount = 251 /\ req[r].estimatedWaitTime = 3

\* C19: nextInLine(limit) returns waiting entries only, in order of
\* position ascending, min(limit, number waiting) of them (the limit 10
\* when none is given), and no waiting entry left out has a smaller
\* position than a returned one.
C19_NextInLine ==
  (out.route = "next" /\ out.res = "success") =>
    LET nextUsers == out.nextUsers
        limit == IF out.limit = NoLimit THEN 10 ELSE out.limit
    IN /\ \A k \in DOMAIN nextUsers : entries[nextUsers[k]].status = "waiting"
       /\ \A j, k \in DOMAIN nextUsers :
            j < k => /\ nextUsers[j] # nextUsers[k]
                     /\ entries[nextUsers[j]].position <= entries[nextUsers[k]].position
       /\ Len(nextUsers) <= limit
       /\ Len(nextUsers) = Min(limit, Cardinality(Waiting))
       /\ \A i \in Waiting \ Range(nextUsers) : \A k \in DOMAIN nextUsers :
            entries[i].position >= entries[nextUsers[k]].position

\* C19 witness: three entries were asked for and returned, a waiting entry
\* is left out, and an entry that does not wait has a smaller position
\* than a returned one.
C19_Witness ==
  /\ out.route = "next" /\ out.res = "success"
  /\ out.limit = 3 /\ Len(out.nextUsers) = 3
  /\ Waiting \ Range(out.nextUsers) # {}
  /\ \E i \in DOMAIN entries : \E k \in DOMAIN out.nextUsers :
       /\ entries[i].status # "waiting"
       /\ entries[i].position < entries[out.nextUsers[k]].position

Listed == out.route = "list" /\ out.res = "success"

\* a comes before b in the order the listing was asked in
Ahead(a, b) ==
  LET field == IF out.sort = NoVal THEN "position" ELSE out.sort
  IN IF out.order = "desc" THEN KeyBelow(b, a, field) ELSE KeyBelow(a, b, field)

\* C20: page p with limit l of a listing of n entries holds the entries at
\* the ranks (p-1)*l + 1 .. min(p*l, n) of the filtered entries in the
\* order asked for, with totalItems = n, totalPages = ceil(n / l),
\* hasNextPage = (p < totalPages) and hasPrevPage = (p > 1); p = 2, l = 10,
\* n = 25 gives the ranks 11 to 20, totalPages 3 and both flags true.
C20_Pagination ==
  Listed =>
    LET p == IF out.page = NoPage THEN 1 ELSE out.page
        l == IF out.limit = NoLimit THEN 20 ELSE out.limit
        set == {i \in DOMAIN entries : out.status = NoVal \/ entries[i].status = out.status}
        n == Cardinality(set)
        items == out.waitlistEntries
        last == Min(p * l, n)
        pg == out.pagination
    IN /\ Len(items) = IF last > (p - 1) * l THEN last - (p - 1) * l ELSE 0
       /\ \A k \in DOMAIN items :
            /\ items[k] \in set
            /\ Cardinality({y \in set : Ahead(y, items[k])}) < (p - 1) * l + k
            /\ Cardinality({y \in set : ~Ahead(items[k], y)}) >= (p - 1) * l + k
       /\ \A j, k \in DOMAIN items : j < k => items[j] # items[k]
       /\ pg.currentPage = p /\ pg.itemsPerPage = l
       /\ pg.totalItems = n
       /\ pg.totalPages * l >= n /\ (pg.totalPages - 1) * l < n
       /\ pg.hasNextPage = (p < pg.totalPages)
       /\ pg.hasPrevPage = (p > 1)
       /\ (p = 2 /\ l = 10 /\ n = 25) =>
            /\ Len(items) = 10
            /\ pg.totalPages = 3 /\ pg.hasNextPage /\ pg.hasPrevPage

\* C20 witness: page 2 of 25 entries, ten to the page.
C20_Witness ==
  /\ Listed
  /\ out.page = 2 /\ out.limit = 10 /\ out.pagination.totalItems = 25
  /\ Len(out.waitlistEntries) = 10
  /\ out.pagination.totalPages = 3

\* C21: no entry in the answer of the paginated listing or of nextInLine
\* carries the origin IP address or the user agent.
C21_ListingsHideOrigin ==
  /\ Listed =>
       \A k \in DOMAIN out.waitlistEntries : out.fields \cap {"ipAddress", "userAgent"} = {}
  /\ (out.route = "next" /\ out.res = "success") =>
       \A k \in DOMAIN out.nextUsers : out.fields \cap {"ipAddress", "userAgent"} = {}

\* C26: every entry with status invited has invitedAt set and every entry
\* with status registered has registeredAt set.
C26_StatusHasTimestamp ==
  \A i \in LiveIds :
    /\ entries[i].status = "invited" => entries[i].invitedAt # NoDate
    /\ entries[i].status = "registered" => entries[i].registeredAt # NoDate

\* C28: of two invite requests in flight together, the one that saves
\* after the other has reported success does not report success itself:
\* an invite succeeds only on an entry that still waits and has no
\* invitedAt.
C28_OneInviteSucceeds ==
  [][\A r, other \in Reqs :
       ( /\ r # other
         /\ req[r].op = "invite" /\ req[r].pc = "save"
         /\ req'[r].pc = "done" /\ req'[r].res = "success"
         /\ req[other].op = "invite" /\ req[other].pc = "done"
         /\ req[other].res = "success" )
       => /\ entries[req[r].id].status = "waiting"
          /\ entries[req[r].id].invitedAt = NoDate]_vars

\* the matchScore of recipe id for the supplied ingredients, as a fraction
ScoreOf(id) ==
  [num |-> Len(SelectSeq(foods[id].ingredients, ContainsSupplied)),
   den |-> Len(foods[id].ingredients)]

\* C27: matchByIngredients with limit L returns the L candidates of the
\* catalog with the highest matchScore, all candidates when there are
\* fewer than L: no candidate left out has a strictly higher matchScore
\* than a returned one.
C27_BestCandidatesReturned ==
  Matched =>
    LET returned == ReturnedIds(out.recipes)
        leftOut == {id \in DOMAIN foods : IsCandidate(id) /\ id \notin returned}
    IN /\ Len(out.recipes) < EffectiveLimit(out.limit) => leftOut = {}
       /\ \A id \in leftOut : \A k \in DOMAIN out.recipes :
            ~ScoreAbove(ScoreOf(id), out.recipes[k])

\* the caller may update the recipe: an admin, or its creator
MayUpdate(caller, id) == RoleOf[caller] = "admin" \/ foods[id].createdBy = caller

C23_OnlyAdminOrChefCreates ==
  [][\A r \in Reqs :
       (freq'[r].op = "create" /\ freq[r].pc = "idle" /\ DOMAIN foods' # DOMAIN foods) =>
          RoleOf[freq'[r].caller] \in {"admin", "chef"}]_vars

\* the calendar day a Date falls on
Day(date) == date \div TicksPerDay

\* a request of slot r that marks a recipe as cooked succeeds in this step
Cooks(r) == freq[r].op = "cook" /\ freq[r].pc = "cook" /\ freq'[r].res = "success"

\* C24: the streak counts consecutive calendar days.  A cook on the day of
\* the last cook leaves it as it is, a cook on the day after adds one, a
\* cook after a day without cooking (and the first cook ever) sets it to 1.
C24_StreakCountsCalendarDays ==
  [][\A r \in Reqs : Cooks(r) =>
       LET before == users[freq[r].caller]
           after == users'[freq[r].caller]
           gap == Day(now) - Day(before.lastCooked)
       IN after.cookingStreak =
            IF before.lastCooked = NoDate \/ gap > 1 THEN 1
            ELSE IF gap = 1 THEN before.cookingStreak + 1
            ELSE before.cookingStreak]_vars

\* C25: the userStats of the response to mark-as-cooked are the values the
\* user's document holds after the request.
C25_ResponseEqualsPersisted ==
  [][\A r \in Reqs : Cooks(r) =>
       /\ freq'[r].userStats.recipesCooked = users'[freq[r].caller].recipesCooked
       /\ freq'[r].userStats.cookingStreak = users'[freq[r].caller].cookingStreak]_vars

\* a request of slot r that adds or removes a favorite succeeds in this step
Favors(r, op) ==
  freq[r].op = op /\ freq[r].pc = "favorite" /\ freq'[r].res = "success"

NoRecipeTwice(favorites) ==
  \A i, j \in DOMAIN favorites : favorites[i] = favorites[j] => i = j

\* C29: the favorites hold no recipe twice.  Adding a recipe that is a
\* favorite changes nothing and adding another appends it; removing a
\* recipe leaves no occurrence of it and keeps the others in their order
\* (so adding and then removing a recipe that was no favorite gives the
\* list there was).
C29_FavoritesHoldEachRecipeOnce ==
  [][\A r \in Reqs :
       LET before == users[freq[r].caller].favoriteRecipes
           after == users'[freq[r].caller].favoriteRecipes
           recipe == ObjectId(freq[r].param)
       IN /\ Favors(r, "favorite") =>
               /\ after = IF recipe \in Range(before) THEN before
                          ELSE Append(before, recipe)
               /\ NoRecipeTwice(after)
          /\ Favors(r, "unfavorite") =>
               /\ after = SelectSeq(before, LAMBDA id : id # recipe)
               /\ NoRecipeTwice(after)]_vars

\* C30: the listing of favorites reports totalItems as the number of the
\* user's favorites, totalPages as ceil(totalItems / limit) and
\* hasNextPage as true exactly when favorites remain after the page.
C30_FavoritesPagination ==
  [][(out = NoOut /\ out'.route = "favorites" /\ out'.res = "success") =>
       LET total == Len(users[out'.caller].favoriteRecipes)
       IN /\ out'.totalItems = total
          /\ out'.totalPages = TotalPages(total, out'.itemsPerPage)
          /\ out'.hasNextPage = (out'.currentPage * out'.itemsPerPage < total)]_vars
====
